---- MODULE Spec2Model ----
(***************************************************************************)
(* A model of the primitives of the repository:                            *)
(*   - api/app/queue.py   : InMemoryJobQueue, an asyncio FIFO channel      *)
(*                          drained by a pool of worker tasks;             *)
(*   - api/app/caching.py : MemoryTTLCache, an OrderedDict with per-entry  *)
(*                          expiry and LRU capacity eviction, and          *)
(*                          get_cache, the selector of the cache backend.  *)
(* The program runs on one asyncio event loop, so one action of the model  *)
(* is one task step: the code a coroutine runs between two suspension      *)
(* points.  The primitives share no state; QueueSpec, CacheSpec and        *)
(* SelectorSpec each move one of them and leave the others at their        *)
(* initial value.                                                          *)
(***************************************************************************)
EXTENDS Integers, Sequences, FiniteSets, TLC

VARIABLES
    \* ---- queue.py: InMemoryJobQueue ----
    concurrency,    \* settings.queue_worker_concurrency (read from the environment)
    jobs,           \* self.jobs: job id -> Job object (the registry; the channel and
                    \* the workers hold references to the same objects)
    queue,          \* self.queue._queue: the ids of the Jobs in the channel, head first
    getters,        \* self.queue._getters: the workers whose get() future is in the deque
    unfinished,     \* self.queue._unfinished_tasks
    tasks,          \* self._workers: one record per worker task
    shutdown,       \* self._shutdown.is_set()
    stop_pc,        \* where the caller of stop() is: "idle", "gather" or "returned"
    gathered,       \* how many tasks the pending gather() of stop() waits for
    uuids,          \* how many ids uuid4() has handed out
    ret,            \* what the step just taken returned to its caller
    \* ---- caching.py: MemoryTTLCache ----
    max_items,      \* self._max_items
    store,          \* self._store: the OrderedDict as a sequence, oldest first
    now,            \* time.time()
    cret,           \* what the cache call just made returned, and what it did
    touched,        \* history: the stored keys in the order of their last touch,
                    \* oldest first, each with the call that touched it
    track,          \* history: whether touched is kept
    watch,          \* history: the key whose set() calls are recorded, or 0
    lastset,        \* history: the last set() of watch, and whether a later set()
                    \* evicted the entry for capacity
    \* ---- caching.py: get_cache ----
    cache_backend,  \* settings.cache_backend, a string as the tuple of its characters
    redis_url,      \* settings.redis_url: None or a string
    aioredis,       \* whether `import redis.asyncio` succeeded (aioredis is not None)
    cache,          \* the module global _cache: 0 (None) or the backend instance
    instances,      \* the backend instances constructed so far, by their class
    calls           \* history: the get_cache() calls made so far, with what each
                    \* returned or raised

qvars == <<concurrency, jobs, queue, getters, unfinished, tasks, shutdown,
           stop_pc, gathered, uuids, ret>>
cvars == <<max_items, store, now, cret, touched, track, watch, lastset>>
svars == <<cache_backend, redis_url, aioredis, cache, instances, calls>>
vars  == <<qvars, cvars, svars>>

(***************************************************************************)
(* Bounds of the model.                                                    *)
(***************************************************************************)
MaxJobs == 2        \* enqueue() calls in one run
MaxTasks == 2       \* worker tasks ever created by start()
NumKeys == 3        \* distinct cache keys
MaxTime == 2        \* how far the clock advances
NumRequests == 2    \* request tasks that resolve the cache dependency
MaxCalls == 3       \* get_cache() calls in one run

\* Optional[...]: None is the empty sequence, a value v is <<v>>.
None == <<>>
Some(v) == <<v>>

Max(a, b) == IF a >= b THEN a ELSE b

(***************************************************************************)
(* queue.py                                                                *)
(***************************************************************************)

\* The values APP_QUEUE_WORKER_CONCURRENCY is given; the default is 2.
Concurrencies == {0, 1, 2}

\* range(max(1, settings.queue_worker_concurrency))
PoolSize == Max(1, concurrency)

\* The payloads enqueued. A payload is either a mapping, given by its values
\* (num: isinstance(v, (int, float))), or an object without .values(), which
\* makes the task raise AttributeError.
GoodPayload == [mapping |-> TRUE,
                values |-> <<[num |-> TRUE, v |-> 3], [num |-> TRUE, v |-> 4],
                             [num |-> FALSE, v |-> 0]>>]
BadPayload == [mapping |-> FALSE, values |-> <<>>]
Payloads == {GoodPayload, BadPayload}

RECURSIVE SumNumeric(_)
\* sum(v for v in job.payload.values() if isinstance(v, (int, float)))
SumNumeric(vs) ==
    IF vs = <<>> THEN 0
    ELSE (IF Head(vs).num THEN Head(vs).v ELSE 0) + SumNumeric(Tail(vs))

\* A variant with another default status.
NewJobProcessing(id, payload) ==
    [id |-> id, payload |-> payload, status |-> "processing", result |-> None, error |-> None]

\* Job(id=..., payload=payload): status, result and error take their defaults.
NewJob(id, payload) ==
    [id |-> id, payload |-> payload, status |-> "queued", result |-> None, error |-> None]

\* A variant whose except branch puts the Job back to queued.
RunTaskRetry(job) ==
    IF job.payload.mapping
    THEN [job EXCEPT !.result = Some([sum |-> SumNumeric(job.payload.values)]),
                     !.status = "done"]
    ELSE [job EXCEPT !.status = "queued", !.error = Some("AttributeError")]

\* A variant that stores the result before the statement that raises.
RunTaskKeepsResult(job) ==
    IF job.payload.mapping
    THEN [job EXCEPT !.result = Some([sum |-> SumNumeric(job.payload.values)]),
                     !.status = "done"]
    ELSE [job EXCEPT !.result = Some([sum |-> 0]),
                     !.status = "failed", !.error = Some("AttributeError")]

\* A variant that never leaves the status processing.
RunTaskNoStatus(job) ==
    IF job.payload.mapping
    THEN [job EXCEPT !.result = Some([sum |-> SumNumeric(job.payload.values)])]
    ELSE [job EXCEPT !.error = Some("AttributeError")]

\* The body of the worker's second try block after the sleep: the sum of the
\* numeric fields and "done", or the except branch: "failed" and str(exc).
RunTask(job) ==
    IF job.payload.mapping
    THEN [job EXCEPT !.result = Some([sum |-> SumNumeric(job.payload.values)]),
                     !.status = "done"]
    ELSE [job EXCEPT !.status = "failed", !.error = Some("AttributeError")]

\* A variant that leaves the status as it is.
MarkNothing(job) == job

\* job.status = "processing"
MarkProcessing(job) == [job EXCEPT !.status = "processing"]

\* A variant that pops from the right end of the deque.
get_nowait_right(q) == [item |-> q[Len(q)], rest |-> SubSeq(q, 1, Len(q) - 1)]

\* A variant that reads the head and leaves it in the deque.
get_nowait_peek(q) == [item |-> Head(q), rest |-> q]

\* asyncio.Queue.get_nowait: popleft of the deque.
get_nowait(q) == [item |-> Head(q), rest |-> Tail(q)]

\* A worker task. pc: "new" (created, never run), "get" (suspended in
\* queue.get() on its getter future), "sleep" (suspended in asyncio.sleep
\* holding job), "ended". fut: the getter future. cancel: task.cancel() was
\* called and CancelledError is thrown into the coroutine at its next step.
NewTask == [pc |-> "new", fut |-> "none", job |-> 0, cancel |-> FALSE]
EndedTask == [pc |-> "ended", fut |-> "none", job |-> 0, cancel |-> FALSE]

Workers == 1..Len(tasks)

\* A variant in which put() wakes no getter.
wakeup_lost(g, ts) == [getters |-> g, tasks |-> ts]

RECURSIVE wakeup_next(_, _)
\* asyncio.Queue._wakeup_next(self._getters): pop waiters until one is not
\* done, and set its result. Returns the deque and the tasks afterwards.
wakeup_next(g, ts) ==
    IF g = <<>> THEN [getters |-> g, tasks |-> ts]
    ELSE IF ts[Head(g)].fut = "pending"
         THEN [getters |-> Tail(g), tasks |-> [ts EXCEPT ![Head(g)].fut = "done"]]
         ELSE wakeup_next(Tail(g), ts)

\* self._getters.remove(getter), ValueError ignored.
RemoveGetter(g, w) == SelectSeq(g, LAMBDA x : x # w)

\* A variant that leaves the finished Jobs out.
snapshot_unfinished ==
    [id \in {i \in DOMAIN jobs : jobs[i].status \notin {"done", "failed"}} |->
        [status |-> jobs[id].status, result |-> jobs[id].result, error |-> jobs[id].error]]

\* The dict comprehension of snapshot().
snapshot ==
    [id \in DOMAIN jobs |->
        [status |-> jobs[id].status, result |-> jobs[id].result, error |-> jobs[id].error]]

NoRet == [op |-> "none"]

\* InMemoryJobQueue.__init__ (the module-level job_queue).
QFresh ==
    /\ jobs = <<>>
    /\ queue = <<>>
    /\ getters = <<>>
    /\ unfinished = 0
    /\ tasks = <<>>
    /\ shutdown = FALSE
    /\ stop_pc = "idle"
    /\ gathered = 0
    /\ uuids = 0
    /\ ret = NoRet

\* InMemoryJobQueue.start: one task per pool slot; create_task does not run it.
Start ==
    /\ Len(tasks) + PoolSize <= MaxTasks
    /\ tasks' = tasks \o [i \in 1..PoolSize |-> NewTask]
    /\ ret' = NoRet
    /\ UNCHANGED <<concurrency, jobs, queue, getters, unfinished, shutdown,
                   stop_pc, gathered, uuids, cvars, svars>>

\* InMemoryJobQueue.enqueue, called by the endpoint enqueue_job. The channel
\* is unbounded, so put() does not suspend: the Job is created, registered,
\* put (which wakes the next getter) and returned in one step, and the
\* endpoint reads job.id and job.status in that same step.
Enqueue(payload) ==
    /\ uuids < MaxJobs
    /\ LET id == uuids + 1
           job == NewJob(id, payload)
           woke == wakeup_next(getters, tasks)
       IN /\ uuids' = id
          /\ jobs' = (id :> job) @@ jobs
          /\ queue' = Append(queue, id)
          /\ unfinished' = unfinished + 1
          /\ getters' = woke.getters
          /\ tasks' = woke.tasks
          /\ ret' = [op |-> "enqueue", job_id |-> job.id, status |-> job.status]
    /\ UNCHANGED <<concurrency, shutdown, stop_pc, gathered, cvars, svars>>

\* The worker inside queue.get() with no exception pending: while the channel
\* is empty, wait on a fresh getter; else take the head, mark it processing
\* and suspend in the sleep. js is the registry as the step found or left it.
QueueGet(w, js) ==
    IF queue = <<>>
    THEN /\ getters' = Append(getters, w)
         /\ tasks' = [tasks EXCEPT ![w] = [pc |-> "get", fut |-> "pending",
                                          job |-> 0, cancel |-> FALSE]]
         /\ jobs' = js
         /\ UNCHANGED queue
    ELSE LET got == get_nowait(queue)
         IN /\ queue' = got.rest
            /\ jobs' = [js EXCEPT ![got.item] = MarkProcessing(js[got.item])]
            /\ tasks' = [tasks EXCEPT ![w] = [pc |-> "sleep", fut |-> "none",
                                             job |-> got.item, cancel |-> FALSE]]
            /\ UNCHANGED getters

\* A variant in which the exception of a failed task leaves the loop.
LoopTopUnlessFailed(w, js) ==
    IF shutdown \/ (tasks[w].job # 0 /\ js[tasks[w].job].status = "failed")
    THEN /\ tasks' = [tasks EXCEPT ![w] = EndedTask]
         /\ jobs' = js
         /\ UNCHANGED <<queue, getters>>
    ELSE QueueGet(w, js)

\* A variant whose loop does not test the flag.
LoopTopForever(w, js) == QueueGet(w, js)

\* The head of the worker's loop: while not self._shutdown.is_set().
LoopTop(w, js) ==
    IF shutdown
    THEN /\ tasks' = [tasks EXCEPT ![w] = EndedTask]
         /\ jobs' = js
         /\ UNCHANGED <<queue, getters>>
    ELSE QueueGet(w, js)

\* The first step of a worker task.
RunNew(w) ==
    /\ tasks[w].pc = "new"
    /\ IF tasks[w].cancel
       THEN \* cancelled before it ever ran: the coroutine body is not entered
            /\ tasks' = [tasks EXCEPT ![w] = EndedTask]
            /\ UNCHANGED <<jobs, queue, getters>>
       ELSE LoopTop(w, jobs)
    /\ ret' = NoRet
    /\ UNCHANGED <<concurrency, unfinished, shutdown, stop_pc, gathered, uuids, cvars, svars>>

\* A worker resumes in queue.get(): its getter was set by a put, or the task
\* was cancelled. On cancellation get() removes the getter, passes the wakeup
\* on if it was woken and cannot take the item, and re-raises; the worker
\* catches CancelledError and breaks out of the loop.
ResumeGet(w) ==
    /\ tasks[w].pc = "get"
    /\ tasks[w].fut # "pending"
    /\ IF tasks[w].cancel
       THEN LET g == RemoveGetter(getters, w)
                ts == [tasks EXCEPT ![w] = EndedTask]
                woke == IF queue # <<>> /\ tasks[w].fut # "cancelled"
                        THEN wakeup_next(g, ts)
                        ELSE [getters |-> g, tasks |-> ts]
            IN /\ getters' = woke.getters
               /\ tasks' = woke.tasks
               /\ UNCHANGED <<jobs, queue>>
       ELSE QueueGet(w, jobs)
    /\ ret' = NoRet
    /\ UNCHANGED <<concurrency, unfinished, shutdown, stop_pc, gathered, uuids, cvars, svars>>

\* A variant in which the except branch catches the cancellation too.
InterruptedFailed(job) == [job EXCEPT !.status = "failed", !.error = Some("")]

\* What cancellation in the sleep does to the Job: CancelledError is not an
\* Exception, so no except branch runs and the Job is left as it is.
Interrupted(job) == job

\* A worker resumes from asyncio.sleep(0.5). Cancelled: finally runs
\* task_done() and the task ends. Otherwise the task runs, task_done() is
\* called, and the loop goes on to its next get() in the same step.
ResumeSleep(w) ==
    /\ tasks[w].pc = "sleep"
    /\ LET j == tasks[w].job
       IN IF tasks[w].cancel
          THEN /\ jobs' = [jobs EXCEPT ![j] = Interrupted(jobs[j])]
               /\ tasks' = [tasks EXCEPT ![w] = EndedTask]
               /\ UNCHANGED <<queue, getters>>
          ELSE LoopTop(w, [jobs EXCEPT ![j] = RunTask(jobs[j])])
    /\ unfinished' = unfinished - 1
    /\ ret' = NoRet
    /\ UNCHANGED <<concurrency, shutdown, stop_pc, gathered, uuids, cvars, svars>>

\* One step of worker task w, as the event loop schedules it.
WorkerStep(w) == w \in Workers /\ (RunNew(w) \/ ResumeGet(w) \/ ResumeSleep(w))

\* task.cancel(): a pending getter future is cancelled; in every case the
\* task's next step raises CancelledError. A finished task is left alone.
Cancel(t) ==
    IF t.pc = "ended" THEN t
    ELSE [t EXCEPT !.cancel = TRUE,
                   !.fut = IF t.fut = "pending" THEN "cancelled" ELSE t.fut]

\* InMemoryJobQueue.stop up to its await: set the flag, cancel every task.
\* The application calls it once, from its shutdown event.
Stop ==
    /\ stop_pc = "idle"
    /\ shutdown' = TRUE
    /\ tasks' = [w \in Workers |-> Cancel(tasks[w])]
    /\ gathered' = Len(tasks)
    /\ stop_pc' = "gather"
    /\ ret' = NoRet
    /\ UNCHANGED <<concurrency, jobs, queue, getters, unfinished, uuids, cvars, svars>>

\* stop() returns: gather() completes when every task it was given has ended.
StopReturn ==
    /\ stop_pc = "gather"
    /\ \A w \in 1..gathered : tasks[w].pc = "ended"
    /\ stop_pc' = "returned"
    /\ ret' = NoRet
    /\ UNCHANGED <<concurrency, jobs, queue, getters, unfinished, tasks, shutdown,
                   gathered, uuids, cvars, svars>>

\* InMemoryJobQueue.snapshot, called by the endpoint jobs_snapshot.
Snapshot ==
    /\ ret' = [op |-> "snapshot", value |-> snapshot]
    /\ UNCHANGED <<concurrency, jobs, queue, getters, unfinished, tasks, shutdown,
                   stop_pc, gathered, uuids, cvars, svars>>

(***************************************************************************)
(* caching.py                                                              *)
(***************************************************************************)
Keys == 1..NumKeys
\* The values stored; the cache never looks into a value.
Values == {"v"}

\* The ttl_seconds arguments: absent (None), negative, zero and positive.
Ttls == {None, Some(-1), Some(0), Some(1), Some(2)}

\* The max_items a cache is constructed with.
Capacities == {1, 2}

\* _Entry(value=value, expires_at=expires_at), with the key it is stored under.
Entry(k, v, e) == [key |-> k, value |-> v, expires_at |-> e]

StoreKeys(s) == {s[i].key : i \in DOMAIN s}

\* The truth value of ttl_seconds in `if ttl_seconds`: None and 0 are false.
Truthy(ttl) == ttl # None /\ ttl[1] # 0

\* A variant that stores the duration instead of the instant.
expiry_ttl_only(ttl, t) == IF Truthy(ttl) THEN ttl ELSE None

\* expires_at = time.time() + ttl_seconds if ttl_seconds else None
expiry(ttl, t) == IF Truthy(ttl) THEN Some(t + ttl[1]) ELSE None

\* A variant that keeps an entry at its expiry instant.
expired_strict(e, t) == e.expires_at # None /\ e.expires_at[1] < t

\* The test of _purge_expired: e.expires_at is not None and e.expires_at <= now
expired(e, t) == e.expires_at # None /\ e.expires_at[1] <= t

\* _purge_expired: pop every expired key; the others keep their order.
purge_expired(s, t) == SelectSeq(s, LAMBDA e : ~expired(e, t))

\* self._store.pop(key) when the key is in the store.
pop(s, k) == SelectSeq(s, LAMBDA e : e.key # k)

\* A variant: popitem() with its default last=True.
popitem_last(s) == SubSeq(s, 1, Len(s) - 1)

\* self._store.popitem(last=False)
popitem(s) == Tail(s)

\* A variant that never evicts.
evict_never(s, m) == s

RECURSIVE evict_if_needed(_, _)
\* _evict_if_needed: while len(self._store) > self._max_items: popitem
evict_if_needed(s, m) == IF Len(s) > m THEN evict_if_needed(popitem(s), m) ELSE s

\* The entry stored under k.
Lookup(s, k) == s[CHOOSE i \in DOMAIN s : s[i].key = k]

\* History: the instant at which a ttl given at time t has elapsed, for a
\* ttl that is a positive duration.
Elapses(ttl, t) == IF ttl # None /\ ttl[1] > 0 THEN Some(t + ttl[1]) ELSE None

\* History: key k was touched just now by the call `by` ("get" or "set").
Touch(ks, k, by) == Append(SelectSeq(ks, LAMBDA x : x.key # k), [key |-> k, by |-> by])

\* History: the touches of the keys that are still stored.
Stored(ks, s) == SelectSeq(ks, LAMBDA x : x.key \in StoreKeys(s))

NoCall == [op |-> "none"]

\* MemoryTTLCache.__init__ and the clock at the start.
CFresh ==
    /\ store = <<>>
    /\ now = 0
    /\ cret = NoCall
    /\ touched = <<>>
    /\ lastset = None

CIdle == max_items = 1 /\ track = FALSE /\ watch = 0 /\ CFresh

\* MemoryTTLCache.get. The lock is free whenever a task reaches it, because
\* no holder suspends inside it: the call is one step. purged: the keys
\* _purge_expired removed.
Get(k) ==
    LET s == purge_expired(store, now)
        gone == StoreKeys(store) \ StoreKeys(s)
    IN /\ IF k \in StoreKeys(s)
          THEN /\ store' = Append(pop(s, k), Lookup(s, k))
               /\ cret' = [op |-> "get", key |-> k, value |-> Some(Lookup(s, k).value),
                           purged |-> gone]
               /\ touched' = IF track THEN Stored(Touch(touched, k, "get"), s) ELSE touched
          ELSE /\ store' = s
               /\ cret' = [op |-> "get", key |-> k, value |-> None, purged |-> gone]
               /\ touched' = Stored(touched, s)
       /\ UNCHANGED <<max_items, now, track, watch, lastset, qvars, svars>>

\* MemoryTTLCache.set. evicted: the keys _evict_if_needed removed.
Set(k, v, ttl) ==
    LET s == Append(pop(store, k), Entry(k, v, expiry(ttl, now)))
        t == evict_if_needed(s, max_items)
        gone == StoreKeys(s) \ StoreKeys(t)
    IN /\ store' = t
       /\ cret' = [op |-> "set", key |-> k, evicted |-> gone]
       /\ touched' = IF track THEN Stored(Touch(touched, k, "set"), t) ELSE touched
       /\ lastset' = IF k = watch
                     THEN Some([value |-> v, ttl |-> ttl, elapses |-> Elapses(ttl, now),
                                evicted |-> k \in gone])
                     ELSE IF watch \in gone
                          THEN Some([lastset[1] EXCEPT !.evicted = TRUE])
                          ELSE lastset
       /\ UNCHANGED <<max_items, now, track, watch, qvars, svars>>

\* time.time() moves on between two calls.
Tick ==
    /\ now < MaxTime
    /\ now' = now + 1
    /\ cret' = NoCall
    /\ UNCHANGED <<max_items, store, touched, track, watch, lastset, qvars, svars>>

(***************************************************************************)
(* caching.py: the backend selector                                        *)
(***************************************************************************)

\* The values APP_CACHE_BACKEND is given; the default is "memory".
Memory == <<"m", "e", "m", "o", "r", "y">>
Redis == <<"r", "e", "d", "i", "s">>
CacheBackends == {Memory, Redis, <<"R", "e", "d", "i", "s">>, <<"R", "E", "D", "I", "S">>}

\* The values APP_REDIS_URL is given: unset, empty, or a URL of the server.
\* (aioredis.from_url rejects a string without a redis scheme; that is the
\* library's code and no such string is drawn here.)
RedisUrls == {None, Some(""), Some("redis://localhost:6379/0")}

\* The request tasks: each resolves Depends(cache_dep), which calls get_cache().
Requests == 1..NumRequests

\* str.lower on one character, for the characters of CacheBackends.
LowerChar(c) ==
    CASE c = "R" -> "r" [] c = "E" -> "e" [] c = "D" -> "d" [] c = "I" -> "i"
      [] c = "S" -> "s" [] OTHER -> c

\* str.lower
lower(str) == [i \in DOMAIN str |-> LowerChar(str[i])]

\* The truth value of settings.redis_url in `and settings.redis_url`: None
\* and the empty string are false.
TruthyStr(u) == u # None /\ u[1] # ""

\* RedisCache.__init__: RuntimeError when the client library is missing,
\* else an instance around aioredis.from_url(url), which does not connect.
RedisCache(url) ==
    IF aioredis THEN [raised |-> None, class |-> "RedisCache", url |-> url]
    ELSE [raised |-> Some("RuntimeError"), class |-> "RedisCache", url |-> url]

\* MemoryTTLCache(): the constructor cannot fail.
MemoryTTLCache == [raised |-> None, class |-> "MemoryTTLCache", url |-> ""]

\* A variant that never finds the global set.
is_not_none_never(c) == FALSE

\* `_cache is not None`
is_not_none(c) == c # 0

\* The backend get_cache constructs when _cache is None.
construct ==
    IF lower(cache_backend) = Redis /\ TruthyStr(redis_url)
    THEN RedisCache(redis_url[1])
    ELSE MemoryTTLCache

SIdle ==
    /\ cache = 0
    /\ instances = <<>>
    /\ calls = <<>>

\* Nobody calls get_cache(); the settings are the defaults.
SDefault == cache_backend = Memory /\ redis_url = None /\ aioredis = TRUE /\ SIdle

\* get_cache(), called by cache_dep for request task r. The function is
\* synchronous and cache_dep runs on the event loop, so a call is one step.
\* A constructor that raises leaves _cache as it was (None).
get_cache(r) ==
    /\ Len(calls) < MaxCalls
    /\ IF is_not_none(cache)
       THEN /\ calls' = Append(calls, [by |-> r, raised |-> None,
                                       returned |-> Some(cache), constructed |-> FALSE])
            /\ UNCHANGED <<cache, instances>>
       ELSE LET b == construct
            IN IF b.raised # None
               THEN /\ calls' = Append(calls, [by |-> r, raised |-> b.raised,
                                               returned |-> None, constructed |-> FALSE])
                    /\ UNCHANGED <<cache, instances>>
               ELSE /\ instances' = Append(instances, b.class)
                    /\ cache' = Len(instances) + 1
                    /\ calls' = Append(calls, [by |-> r, raised |-> None,
                                               returned |-> Some(Len(instances) + 1),
                                               constructed |-> TRUE])
    /\ UNCHANGED <<cache_backend, redis_url, aioredis, qvars, cvars>>

SelectorNext == \E r \in Requests : get_cache(r)

CacheNext ==
    \/ \E k \in Keys : Get(k)
    \/ \E k \in Keys, v \in Values, ttl \in Ttls : Set(k, v, ttl)
    \/ Tick

QueueNext ==
    \/ Start
    \/ \E p \in Payloads : Enqueue(p)
    \/ \E w \in Workers : RunNew(w)
    \/ \E w \in Workers : ResumeGet(w)
    \/ \E w \in Workers : ResumeSleep(w)
    \/ Stop
    \/ StopReturn
    \/ Snapshot

\* The queue as constructed, with the pool size the environment configures.
QueueInit == concurrency \in Concurrencies /\ QFresh /\ CIdle /\ SDefault

\* A queue nobody uses, beside the cache.
QIdle == concurrency = 2 /\ QFresh

\* A cache of any capacity, with the set() calls of one key recorded.
CacheInit ==
    max_items \in Capacities /\ track = FALSE /\ watch \in Keys /\ CFresh /\ QIdle /\ SDefault

CacheSpec == CacheInit /\ [][CacheNext]_vars

\* A cache of any capacity, with the order of the touches recorded.
LruInit ==
    max_items \in Capacities /\ track = TRUE /\ watch = 0 /\ CFresh /\ QIdle /\ SDefault

LruSpec == LruInit /\ [][CacheNext]_vars

QueueSpec == QueueInit /\ [][QueueNext]_vars

\* The process as it starts, under any configuration of the cache backend,
\* with or without the redis package installed.
SelectorInit ==
    /\ cache_backend \in CacheBackends
    /\ redis_url \in RedisUrls
    /\ aioredis \in BOOLEAN
    /\ SIdle /\ QIdle /\ CIdle

SelectorSpec == SelectorInit /\ [][SelectorNext]_vars

\* The event loop runs every ready task and every timer that is due, so a
\* worker step that stays enabled is eventually taken.
QueueLiveSpec == QueueSpec /\ \A w \in 1..MaxTasks : WF_vars(WorkerStep(w))

(***************************************************************************)
(* Claims about the job queue.                                             *)
(***************************************************************************)
Terminal == {"done", "failed"}

\* C1: in every step, a Job of the registry stays in the registry and its
\* status either keeps its value, goes from queued to processing, or goes from
\* processing to done or failed; a Job new in the registry is queued.
C1_StatusLifecycle ==
    [][/\ DOMAIN jobs \subseteq DOMAIN jobs'
       /\ \A id \in DOMAIN jobs' :
            IF id \in DOMAIN jobs
            THEN \/ jobs'[id].status = jobs[id].status
                 \/ jobs[id].status = "queued" /\ jobs'[id].status = "processing"
                 \/ jobs[id].status = "processing" /\ jobs'[id].status \in Terminal
            ELSE jobs'[id].status = "queued"]_vars

\* C1 witness: one Job went all the way to done and another to failed.
C1_Witness ==
    \E a, b \in DOMAIN jobs : jobs[a].status = "done" /\ jobs[b].status = "failed"

\* C2: once a Job is registered and workers have been started, the Job
\* eventually is done or failed, unless stop() is called.
C2_EventuallyTerminal ==
    \A id \in 1..MaxJobs :
        (id \in DOMAIN jobs /\ tasks # <<>>)
            ~> (shutdown \/ (id \in DOMAIN jobs /\ jobs[id].status \in Terminal))

\* C2 witness: no stop(), workers started, two Jobs enqueued and every Job
\* of the registry finished, the last of them taken by a worker that was
\* found waiting.
C2_Witness ==
    /\ ~shutdown
    /\ uuids >= 2
    /\ \A id \in DOMAIN jobs : jobs[id].status \in Terminal
    /\ \E w \in Workers : tasks[w].pc = "get" /\ tasks[w].fut = "pending"

\* C3: ids are handed out in the order of the enqueue calls; a Job enqueued
\* after a Job that is still queued is itself still queued.
C3_Fifo ==
    \A a, b \in DOMAIN jobs :
        (a < b /\ jobs[a].status = "queued") => jobs[b].status = "queued"

\* C3 witness: two workers took two Jobs in order and the later Job finished
\* first.
C3_Witness ==
    \E a, b \in DOMAIN jobs :
        /\ a < b
        /\ jobs[a].status = "processing"
        /\ jobs[b].status \in Terminal
        /\ ~shutdown

\* C4: a snapshot() just returned has an entry for every id enqueue ever
\* returned, and the entry holds the status, result and error of that Job.
C4_SnapshotComplete ==
    ret.op = "snapshot" =>
        \A id \in 1..uuids :
            /\ id \in DOMAIN ret.value
            /\ id \in DOMAIN jobs
            /\ ret.value[id] = [status |-> jobs[id].status,
                                result |-> jobs[id].result,
                                error |-> jobs[id].error]

\* C4 witness: a snapshot taken after stop(), with a finished Job, a Job
\* interrupted in processing and a Job still queued.
C4_Witness ==
    /\ ret.op = "snapshot"
    /\ shutdown
    /\ \E a, b \in DOMAIN ret.value :
        /\ ret.value[a].status \in Terminal
        /\ ret.value[b].status = "processing"

\* C5: the response of the enqueue endpoint says queued, and the Job is
\* queued when enqueue returns.
C5_EnqueueReturnsQueued ==
    ret.op = "enqueue" =>
        /\ ret.status = "queued"
        /\ ret.job_id \in DOMAIN jobs
        /\ jobs[ret.job_id].status = "queued"

\* C5 witness: enqueue returned after its put woke a worker that was blocked
\* in queue.get().
C5_Witness ==
    /\ ret.op = "enqueue"
    /\ \E w \in Workers : tasks[w].pc = "get" /\ tasks[w].fut = "done"

\* C11: from the stop() call on (the flag stays set), no Job of the registry
\* changes: a Job that is processing stays processing with result and error
\* unset, a queued Job stays queued. When stop() has returned, every worker
\* task that existed at the call has ended and no task is inside its loop.
C11_StopLeavesJobs ==
    [][/\ shutdown => shutdown'
       /\ shutdown' =>
            \A id \in DOMAIN jobs :
                /\ jobs'[id] = jobs[id]
                /\ jobs[id].status \in {"queued", "processing"}
                     => jobs[id].result = None /\ jobs[id].error = None
       /\ stop_pc' = "returned" =>
            \A w \in 1..Len(tasks') :
                /\ tasks'[w].pc \in {"new", "ended"}
                /\ w <= gathered' => tasks'[w].pc = "ended"]_vars

\* C11 witness: stop() has returned, every task has ended, one Job was
\* interrupted in processing and another is still queued.
C11_Witness ==
    /\ stop_pc = "returned"
    /\ tasks # <<>>
    /\ \A w \in Workers : tasks[w].pc = "ended"
    /\ \E a, b \in DOMAIN jobs :
        jobs[a].status = "processing" /\ jobs[b].status = "queued"

\* C14: every snapshot() result has, for each Job, a result only with status
\* done and an error only with status failed; a Job whose status is queued
\* or processing has neither.
C14_SnapshotFieldsMatchStatus ==
    ret.op = "snapshot" =>
        \A id \in DOMAIN ret.value :
            /\ ret.value[id].result # None => ret.value[id].status = "done"
            /\ ret.value[id].error # None => ret.value[id].status = "failed"
            /\ ret.value[id].status \in {"queued", "processing"}
                 => ret.value[id].result = None /\ ret.value[id].error = None

\* C14 witness: a snapshot that shows a done Job with its result and a
\* failed Job with its error.
C14_Witness ==
    /\ ret.op = "snapshot"
    /\ \E a, b \in DOMAIN ret.value :
        /\ ret.value[a].status = "done" /\ ret.value[a].result # None
        /\ ret.value[b].status = "failed" /\ ret.value[b].error # None

\* Worker task w of the task list ts is suspended in the sleep holding Job id.
Holds(ts, w, id) == w \in DOMAIN ts /\ ts[w].pc = "sleep" /\ ts[w].job = id

\* C15: in the step in which the task of a Job raises, that Job becomes
\* failed with its error recorded and no result, the worker that held it is
\* still in its loop afterwards (waiting in get() or holding the next Job),
\* and every other Job is unchanged, except the one that same worker
\* dequeues next, whose status alone changes, from queued to processing.
C15_FailureIsolated ==
    [][\A id \in DOMAIN jobs :
         (jobs[id].status = "processing" /\ jobs'[id].status = "failed") =>
            /\ jobs'[id].error # None
            /\ jobs'[id].result = None
            /\ \E w \in Workers :
                /\ Holds(tasks, w, id)
                /\ tasks'[w].pc \in {"get", "sleep"}
                /\ \A o \in DOMAIN jobs \ {id} :
                    \/ jobs'[o] = jobs[o]
                    \/ /\ jobs[o].status = "queued"
                       /\ jobs'[o] = [jobs[o] EXCEPT !.status = "processing"]
                       /\ Holds(tasks', w, o)]_vars

\* C15 witness: a single worker whose first Job failed has processed the
\* second one to done.
C15_Witness ==
    /\ Len(tasks) = 1
    /\ DOMAIN jobs = {1, 2}
    /\ jobs[1].status = "failed" /\ jobs[1].error # None
    /\ jobs[2].status = "done"

\* C17: no two workers hold the same Job at the same time; a worker comes
\* to hold a Job only by taking it while it is queued (so, the status never
\* returning to queued, at most once); and whenever a Job's record changes,
\* the step is taken by the one worker that holds it before or after.
C17_ExclusiveDequeue ==
    [][/\ \A w1, w2 \in 1..Len(tasks') :
            (w1 # w2 /\ tasks'[w1].pc = "sleep" /\ tasks'[w2].pc = "sleep")
                => tasks'[w1].job # tasks'[w2].job
       /\ \A id \in DOMAIN jobs :
            /\ \A w \in Workers :
                (Holds(tasks', w, id) /\ ~Holds(tasks, w, id))
                    => jobs[id].status = "queued" /\ jobs'[id].status = "processing"
            /\ jobs'[id] # jobs[id] =>
                \E w \in Workers :
                    /\ tasks'[w] # tasks[w]
                    /\ Holds(tasks, w, id) \/ Holds(tasks', w, id)
                    /\ \A o \in Workers \ {w} :
                        ~Holds(tasks, o, id) /\ ~Holds(tasks', o, id)]_vars

\* C17 witness: two workers hold two different Jobs at the same time.
C17_Witness ==
    \E w1, w2 \in Workers :
        /\ w1 # w2
        /\ tasks[w1].pc = "sleep" /\ tasks[w2].pc = "sleep"
        /\ tasks[w1].job # tasks[w2].job

\* The Jobs of the registry whose status is st.
WithStatus(st) == {id \in DOMAIN jobs : jobs[id].status = st}

\* C18: the Jobs in status processing are never more than the worker tasks
\* started; with one worker task and no stop(), while a Job is processing
\* every Job enqueued after it is queued.
C18_ProcessingBounded ==
    /\ Cardinality(WithStatus("processing")) <= Len(tasks)
    /\ (Len(tasks) = 1 /\ ~shutdown) =>
         \A a, b \in DOMAIN jobs :
            (a < b /\ jobs[a].status = "processing") => jobs[b].status = "queued"

\* C18 witness: one worker, no stop(), the first Job processing and the
\* second queued.
C18_Witness ==
    /\ Len(tasks) = 1 /\ ~shutdown
    /\ DOMAIN jobs = {1, 2}
    /\ jobs[1].status = "processing" /\ jobs[2].status = "queued"

\* C19: between any two steps, the channel holds exactly the registered
\* Jobs whose status is queued, each once.
C19_ChannelIsQueued ==
    /\ {queue[i] : i \in DOMAIN queue} = WithStatus("queued")
    /\ Len(queue) = Cardinality(WithStatus("queued"))

\* C19 witness: the second Job waits in the channel while the first has
\* left it and is processing.
C19_Witness ==
    /\ queue = <<2>>
    /\ jobs[1].status = "processing"
    /\ jobs[2].status = "queued"

\* C20: once stop() has returned, it stays returned and the flag stays set;
\* no registered Job changes; a Job enqueued then is queued; nothing leaves
\* the channel; and no worker task, old or newly started, is inside its loop.
C20_ShutdownPermanent ==
    [][stop_pc = "returned" =>
        /\ stop_pc' = "returned" /\ shutdown /\ shutdown'
        /\ \A id \in DOMAIN jobs : jobs'[id] = jobs[id]
        /\ \A id \in DOMAIN jobs' \ DOMAIN jobs : jobs'[id].status = "queued"
        /\ Len(queue') >= Len(queue) /\ SubSeq(queue', 1, Len(queue)) = queue
        /\ \A w \in 1..Len(tasks') : tasks'[w].pc \in {"new", "ended"}]_vars

\* C20 witness: stop() has returned, start() was called after the stop()
\* call and its workers have run and ended, and a Job enqueued in the step
\* just taken waits in the channel.
C20_Witness ==
    /\ stop_pc = "returned"
    /\ Len(tasks) > gathered
    /\ \A w \in Workers : tasks[w].pc = "ended"
    /\ ret.op = "enqueue"
    /\ queue # <<>>

(***************************************************************************)
(* Claims about the in-process cache.                                      *)
(***************************************************************************)

\* An entry whose expiry instant is at or before time t.
PastExpiry(e, t) == e.expires_at # None /\ e.expires_at[1] <= t

\* C6: the store never holds more entries than max_items, whatever calls
\* were made and whether or not the entries are expired.
C6_SizeBound == Len(store) <= max_items

\* C6 witness: a set() has just evicted for capacity, and the store is full
\* with an expired entry among its entries.
C6_Witness ==
    /\ cret.op = "set"
    /\ cret.evicted # {}
    /\ Len(store) = max_items
    /\ \E i \in DOMAIN store : PastExpiry(store[i], now)

\* The key of ks, among the keys K, whose last touch is the oldest.
Oldest(ks, K) ==
    ks[CHOOSE i \in DOMAIN ks :
          /\ ks[i].key \in K
          /\ \A j \in DOMAIN ks : ks[j].key \in K => i <= j].key

\* A step in which set() evicted for capacity.
Overflow == cret'.op = "set" /\ cret'.evicted # {}

\* C7 as claimed: a set() that evicts is the set() of a key not stored, it
\* removes exactly the stored key whose last touch is the oldest, and when the
\* most recent touch was a get() of a key, that key is not the one removed.
C7_Original ==
    [][Overflow =>
        /\ cret'.key \notin StoreKeys(store)
        /\ cret'.evicted = {Oldest(touched, StoreKeys(store))}
        /\ touched[Len(touched)].by = "get"
             => touched[Len(touched)].key \notin cret'.evicted]_vars

\* C7 as amended: the same, the last part for max_items >= 2 only. With
\* max_items = 1 the key just read is the only stored key, so it is both the
\* most and the least recently touched, and the next overflow removes it.
C7_StrictLru ==
    [][Overflow =>
        /\ cret'.key \notin StoreKeys(store)
        /\ cret'.evicted = {Oldest(touched, StoreKeys(store))}
        /\ (max_items >= 2 /\ touched[Len(touched)].by = "get")
             => touched[Len(touched)].key \notin cret'.evicted]_vars

\* C7 witness: with max_items = 2, a set() evicted for capacity right after a
\* get() had refreshed the key that is still stored.
C7_Witness ==
    /\ max_items >= 2
    /\ cret.op = "set"
    /\ cret.evicted # {}
    /\ Len(touched) = 2
    /\ touched[1].by = "get"
    /\ touched[1].key \in StoreKeys(store)

\* C8: get(key) returns the value of the entry stored under key when that
\* entry has no expiry instant or one after the current time, and None when
\* no entry is stored under key or its expiry instant is at or before the
\* current time.
C8_NoExpiredValue ==
    [][cret'.op = "get" =>
        IF \E i \in DOMAIN store : store[i].key = cret'.key /\ ~PastExpiry(store[i], now)
        THEN cret'.value = Some(Lookup(store, cret'.key).value)
        ELSE cret'.value = None]_vars

\* C8 witness: a get() of a key whose entry was still stored, expired, and
\* was removed by the purge of that call; it returned None.
C8_Witness ==
    /\ cret.op = "get"
    /\ cret.key \in cret.purged
    /\ cret.value = None

\* The last set() of the watched key gave a ttl > 0.
WatchedTtl ==
    /\ cret.op = "get"
    /\ cret.key = watch
    /\ lastset # None
    /\ lastset[1].elapses # None

\* C9 as claimed: after set(k, v, ttl) with ttl > 0, a get(k) made before the
\* ttl has elapsed returns v and one made once it has elapsed returns None,
\* whatever was done to other keys in between.
C9_Original ==
    WatchedTtl =>
        /\ now < lastset[1].elapses[1] => cret.value = Some(lastset[1].value)
        /\ now >= lastset[1].elapses[1] => cret.value = None

\* C9 as amended: before the ttl has elapsed get(k) returns v unless a set()
\* of another key has evicted k for capacity since; once the ttl has elapsed
\* it returns None.
C9_TtlRespected ==
    WatchedTtl =>
        /\ (now < lastset[1].elapses[1] /\ ~lastset[1].evicted)
             => cret.value = Some(lastset[1].value)
        /\ now >= lastset[1].elapses[1] => cret.value = None

\* C9 witness: get(k) returned v before the ttl elapsed, at a later time than
\* the set(), with the entry of another key stored after it.
C9_Witness ==
    /\ WatchedTtl
    /\ cret.value = Some(lastset[1].value)
    /\ now > 0
    /\ Len(store) = 2

\* C10: set() gives the entry an expiry instant only for a ttl that is given
\* and > 0; after a set() with ttl absent or <= 0, get() returns the value at
\* any later time unless the entry was evicted for capacity or overwritten.
C10_NonPositiveTtlNeverExpires ==
    /\ (cret.op = "set" /\ cret.key = watch /\ watch \in StoreKeys(store))
         => (Lookup(store, watch).expires_at # None => lastset[1].elapses # None)
    /\ (cret.op = "get" /\ cret.key = watch /\ lastset # None
            /\ lastset[1].elapses = None /\ ~lastset[1].evicted)
         => cret.value = Some(lastset[1].value)

\* C16: a set() leaves no entry of another key in the store that was expired
\* when it was called, and it does not evict an entry that was not expired
\* while an entry that was expired stays stored.
C16_SetPurgesFirst ==
    [][cret'.op = "set" =>
        /\ \A i \in DOMAIN store :
            (PastExpiry(store[i], now) /\ store[i].key # cret'.key)
                => store[i].key \notin StoreKeys(store')
        /\ ~ \E i, j \in DOMAIN store :
                /\ ~PastExpiry(store[i], now) /\ store[i].key \in cret'.evicted
                /\ PastExpiry(store[j], now) /\ store[j].key # cret'.key
                /\ store[j].key \in StoreKeys(store')]_vars

(***************************************************************************)
(* Claims about the backend selector.  calls is the log of the get_cache() *)
(* calls of a run, in the order the event loop ran them.                   *)
(***************************************************************************)

\* C12: with cache_backend = redis and redis_url unset or empty, the first
\* get_cache() call raises and returns no backend, and no backend is
\* retained.
C12_MissingUrlIsConfigError ==
    (cache_backend = Redis /\ redis_url \in {None, Some("")} /\ calls # <<>>)
        => /\ calls[1].raised # None
           /\ calls[1].returned = None
           /\ cache = 0

\* C13: at most one backend instance is ever constructed, and after a
\* get_cache() call that returned an instance every later call, by any
\* request task, returns that instance and constructs nothing.
C13_OneInstance ==
    /\ Len(instances) <= 1
    /\ \A i, j \in DOMAIN calls :
        (i < j /\ calls[i].returned # None)
            => calls[j].returned = calls[i].returned /\ ~calls[j].constructed

\* C13 witness: the first call constructed the backend, and later calls of
\* both request tasks returned that one instance.
C13_Witness ==
    /\ Len(calls) = 3
    /\ calls[1].constructed
    /\ calls[2].by # calls[3].by
    /\ calls[2].returned = calls[1].returned
    /\ calls[3].returned = calls[1].returned
    /\ instances = <<"RedisCache">>

====
